---------------------------- MODULE Spec2Model ----------------------------
(***************************************************************************)
(* Model of the Canvas link checker: run_link_checker and its helpers, as  *)
(* written in canvas_link_checker.py (variant "canvas") and linkchecker.py *)
(* (variant "linkchecker").                                                *)
(*                                                                         *)
(* Python strings that the code inspects character by character (URLs,     *)
(* references, link texts) are sequences of one-character strings.  Labels *)
(* the code only copies (locations, reasons, issue types) are strings.     *)
(* A Python value that may be None, a str or a bool is a record            *)
(* [type, val].                                                            *)
(***************************************************************************)
EXTENDS Integers, Sequences, FiniteSets, TLC

VARIABLES
    variant,      \* which file's run_link_checker runs
    gc,           \* the gspread client, "client", or "None"
    pc,           \* position of the coordinating thread in run_link_checker
    all_links,    \* list of link dictionaries
    futures,      \* one future per task of executor.map, in task order
    calls,        \* url -> number of calls of _check_link_status so far
    ended,        \* url -> number of those calls that returned or raised
    sent,         \* the GETs sent so far: url, headers and cookies
    scraper,      \* the hosts with a cookie in the jar of the module-level
                  \* cloudscraper session of canvas_link_checker.py
    url_results,  \* dict url -> result dictionary
    idx,          \* index of the next link of the report loop (1-based)
    report_rows,  \* list of report rows
    exported,     \* the rows handed to the export target
    outcome,      \* how the run ended
    ref,          \* SpecFilter: the reference handed to _is_valid_url
    ret           \* SpecFilter: the value _is_valid_url returned

vars == <<variant, gc, pc, all_links, futures, calls, ended, sent, scraper,
          url_results,
          idx, report_rows, exported, outcome, ref, ret>>

-----------------------------------------------------------------------------
(* Bounds of the model *)

\* most link dictionaries a scan collects
MaxLinks == 2
\* longest tail appended to a head to build a reference for _is_valid_url
MaxTail == 2

-----------------------------------------------------------------------------
(* Python values and string helpers *)

PyNone == [type |-> "NoneType", val |-> <<>>]
PyStr(s) == [type |-> "str", val |-> s]
PyBool(b) == [type |-> "bool", val |-> b]

\* Python truthiness of None, a str or a bool
Truthy(v) ==
    CASE v.type = "NoneType" -> FALSE
      [] v.type = "str" -> v.val # <<>>
      [] v.type = "bool" -> v.val

Letters ==
    {"a","b","c","d","e","f","g","h","i","j","k","l","m",
     "n","o","p","q","r","s","t","u","v","w","x","y","z",
     "A","B","C","D","E","F","G","H","I","J","K","L","M",
     "N","O","P","Q","R","S","T","U","V","W","X","Y","Z"}
Digits == {"0","1","2","3","4","5","6","7","8","9"}
Whitespace == {" ", "\t", "\n"}

SetMin(S) == CHOOSE x \in S : \A y \in S : x <= y
SetMax(S) == CHOOSE x \in S : \A y \in S : x >= y

\* str.strip()
strip(s) ==
    LET keep == {i \in 1..Len(s) : s[i] \notin Whitespace}
    IN  IF keep = {} THEN <<>> ELSE SubSeq(s, SetMin(keep), SetMax(keep))

\* str.startswith(prefix)
startswith(s, prefix) ==
    /\ Len(s) >= Len(prefix)
    /\ SubSeq(s, 1, Len(prefix)) = prefix

\* sub in s
contains(s, sub) ==
    \E i \in 0..(Len(s) - Len(sub)) : SubSeq(s, i + 1, i + Len(sub)) = sub

\* s[:n]
prefix_of(s, n) == SubSeq(s, 1, IF Len(s) < n THEN Len(s) ELSE n)

S_mailto == <<"m","a","i","l","t","o",":">>
S_javascript == <<"j","a","v","a","s","c","r","i","p","t",":">>
S_tel == <<"t","e","l",":">>
S_hash == <<"#">>
S_courses == <<"/","c","o","u","r","s","e","s","/">>
S_https == <<"h","t","t","p","s",":","/","/">>

-----------------------------------------------------------------------------
(* Configuration *)

CANVAS_API_URL == <<"h","t","t","p","s",":","/","/","l","m","s",".","e","x">>
CANVAS_API_KEY == "your_api_key"

\* the identifier run_link_checker resolves from course_input
course_id == <<"4","2">>

-----------------------------------------------------------------------------
(* urllib.parse, as far as the code uses it *)

\* the scheme urlsplit finds: url[:i] for the first ":" when url[:i] is a
\* letter followed by letters, digits, "+", "-", "."; else no scheme (0)
SchemeEnd(url) ==
    LET colons == {i \in 1..Len(url) : url[i] = ":"}
    IN  IF colons = {} THEN 0
        ELSE LET i == SetMin(colons)
             IN  IF /\ i > 1
                    /\ url[1] \in Letters
                    /\ \A k \in 1..(i - 1) :
                          url[k] \in Letters \cup Digits \cup {"+", "-", "."}
                 THEN i ELSE 0

\* urlparse(url).netloc
netloc(url) ==
    LET rest == SubSeq(url, SchemeEnd(url) + 1, Len(url))
    IN  IF startswith(rest, <<"/", "/">>)
        THEN LET stops == {i \in 3..Len(rest) : rest[i] \in {"/", "?", "#"}}
                 last == IF stops = {} THEN Len(rest) ELSE SetMin(stops) - 1
             IN  SubSeq(rest, 3, last)
        ELSE <<>>

\* urljoin(base, url) for a base without a path and a url without "." or
\* ".." segments: an absolute url is returned unchanged, a scheme-relative
\* one takes the base's scheme, any other one is resolved against the
\* base's origin
urljoin(base, url) ==
    IF base = <<>> THEN url
    ELSE IF url = <<>> THEN base
    ELSE IF SchemeEnd(url) > 0 THEN url
    ELSE IF startswith(url, <<"/", "/">>)
         THEN SubSeq(base, 1, SchemeEnd(base)) \o url
    ELSE LET origin == SubSeq(base, 1, SchemeEnd(base)) \o <<"/", "/">>
                           \o netloc(base)
         IN  IF url[1] \in {"/", "?", "#"}
             THEN origin \o url
             ELSE origin \o <<"/">> \o url

-----------------------------------------------------------------------------
(* Helper functions *)

_get_domain(url) == netloc(url)

\* re.search(r'/courses/(\d+)', url): group 1 of the leftmost match, or None
_extract_course_id(url) ==
    LET starts == {i \in 1..Len(url) :
                      /\ i + 9 <= Len(url)
                      /\ SubSeq(url, i, i + 8) = S_courses
                      /\ url[i + 9] \in Digits}
    IN  IF starts = {} THEN PyNone
        ELSE LET b == SetMin(starts) + 9
                 ends == {j \in b..Len(url) :
                             \A k \in b..j : url[k] \in Digits}
             IN  PyStr(SubSeq(url, b, SetMax(ends)))

RejectedPrefixes == {S_mailto, S_javascript, S_hash, S_tel}
NoTelPrefixes == {S_mailto, S_javascript, S_hash}

\* a faulty filter: the tel: prefix is not rejected
IsValidUrlNoTel(url) ==
    IF ~Truthy(url) THEN url
    ELSE IF ~Truthy(PyStr(strip(url.val))) THEN PyStr(strip(url.val))
    ELSE PyBool(~\E p \in NoTelPrefixes : startswith(url.val, p))

\* url and url.strip() and not url.startswith((...)): Python's "and"
\* returns its first falsy operand, else the last one
_is_valid_url(url) ==
    IF ~Truthy(url) THEN url
    ELSE IF ~Truthy(PyStr(strip(url.val))) THEN PyStr(strip(url.val))
    ELSE PyBool(~\E p \in RejectedPrefixes : startswith(url.val, p))


-----------------------------------------------------------------------------
(* Inputs: what the collaborators can supply *)

Variants == {"canvas", "linkchecker"}

R_same == <<"/","c","o","u","r","s","e","s","/","4","2","/","a">>
R_other == <<"/","c","o","u","r","s","e","s","/","7","/","b">>
R_files == <<"/","f","i","l","e","s","/","1">>
R_ext == <<"h","t","t","p","s",":","/","/","e","x","t",".","e","x","/","x">>
R_evil == <<"h","t","t","p","s",":","/","/","e","v","i","l",".","e","x","/",
            "l","m","s",".","e","x">>
R_mail == <<"m","a","i","l","t","o",":","a","@","e","x","t",".","e","x">>
T_doc == <<"d","o","c">>
T_logo == <<"l","o","g","o">>

\* the tags BeautifulSoup finds in a body: the tag name, the reference
\* attribute (href of an anchor, src of an image or iframe; None when the
\* attribute is absent) and the anchor's text or the image's alt
Tags ==
    {[name |-> "a", ref |-> PyStr(R_same), text |-> T_doc],
     [name |-> "a", ref |-> PyStr(R_other), text |-> <<>>],
     [name |-> "a", ref |-> PyStr(R_files), text |-> T_doc],
     [name |-> "a", ref |-> PyStr(R_mail), text |-> T_doc],
     [name |-> "a", ref |-> PyNone, text |-> T_doc],
     [name |-> "img", ref |-> PyStr(R_ext), text |-> T_logo],
     [name |-> "iframe", ref |-> PyStr(R_evil), text |-> <<>>]}

\* the parsed bodies: at most MaxLinks tags each; the empty one stands for
\* a body that is None, empty or without tags
Bodies == UNION {[1..n -> Tags] : n \in 0..MaxLinks}

Pages ==
    {[html_url |-> "https://lms.ex/courses/42/pages/a", title |-> "A"]}

\* module items: type, external_url, title
ModuleItems ==
    {[type |-> "ExternalUrl", external_url |-> R_ext, title |-> "I"],
     [type |-> "ExternalUrl", external_url |-> R_mail, title |-> "I"],
     [type |-> "ExternalUrl", external_url |-> <<>>, title |-> "I"],
     [type |-> "Assignment", external_url |-> <<>>, title |-> "I"]}

\* what one GET can end in: a response (after the redirects requests
\* follows) or an exception
Statuses == {200, 401, 403, 404, 503}
Responses ==
    {[kind |-> "response", status |-> s, redirect |-> r] :
        s \in Statuses, r \in BOOLEAN}
Failure(k) == [kind |-> k, status |-> 0, redirect |-> FALSE]
\* ConnectionError and Timeout are RequestExceptions with their own except
\* clause; "Exception" is any exception that is no RequestException
Failures ==
    {Failure("ConnectionError"), Failure("Timeout"),
     Failure("RequestException"), Failure("Exception")}

\* requests refuses a url without an http(s) scheme with MissingSchema or
\* InvalidSchema, both RequestExceptions
HttpOutcomes(url) ==
    IF startswith(url, S_https) THEN Responses \cup Failures
    ELSE {Failure("RequestException")}

\* r.reason
Reason(status) ==
    CASE status = 200 -> "OK"
      [] status = 401 -> "Unauthorized"
      [] status = 403 -> "Forbidden"
      [] status = 404 -> "Not Found"
      [] status = 503 -> "Service Unavailable"

\* r.url after a redirect
RedirectTarget ==
    <<"h","t","t","p","s",":","/","/","c","d","n",".","e","x","/","f">>

-----------------------------------------------------------------------------
(* _check_link_status *)

is_canvas_link(url) == contains(url, _get_domain(CANVAS_API_URL))

\* the headers of the GET
request_headers(url, api_key) ==
    (IF variant = "linkchecker" THEN {<<"User-Agent", "Mozilla/5.0">>} ELSE {})
    \cup (IF is_canvas_link(url)
          THEN {<<"Authorization", "Bearer " \o api_key>>} ELSE {})

\* the cookies a GET carries: canvas_link_checker.py sends every GET through
\* the one module-level session, which adds the cookies its jar holds for
\* the url's host; requests.get of linkchecker.py makes a session per call
request_cookies(url) ==
    IF variant = "canvas" THEN {h \in scraper : h = _get_domain(url)}
    ELSE {}

\* whether a response sets a cookie in the session that made the request;
\* only the session of canvas_link_checker.py outlives the call
SetCookieChoices(http) ==
    IF variant = "canvas" /\ http.kind = "response" THEN BOOLEAN
    ELSE {FALSE}

\* the returned tuple; linkchecker.py returns no is_canvas_link
CheckTuple(url, status_code, reason, is_redirect, final_url) ==
    IF variant = "canvas"
    THEN [url |-> url, status |-> status_code, reason |-> reason,
          redirect |-> is_redirect, final_url |-> final_url,
          is_canvas |-> is_canvas_link(url)]
    ELSE [url |-> url, status |-> status_code, reason |-> reason,
          redirect |-> is_redirect, final_url |-> final_url]

Returns(t) == [raised |-> FALSE, value |-> t]
Raises == [raised |-> TRUE, value |-> [url |-> <<>>]]

\* what the call ends in when the GET ends in http: the except clauses of
\* canvas_link_checker.py end in "except Exception", those of
\* linkchecker.py in "except requests.exceptions.RequestException"
_check_link_status(url, api_key, http) ==
    CASE http.kind = "response" ->
            Returns(CheckTuple(url, http.status, Reason(http.status),
                               http.redirect,
                               IF http.redirect THEN RedirectTarget ELSE url))
      [] http.kind = "ConnectionError" ->
            Returns(CheckTuple(url, 0, "Connection Error", FALSE, <<>>))
      [] http.kind = "Timeout" ->
            Returns(CheckTuple(url, 0, "Timeout", FALSE, <<>>))
      [] http.kind = "RequestException" ->
            Returns(CheckTuple(url, 0, "Error: RequestException", FALSE, <<>>))
      [] http.kind = "Exception" ->
            IF variant = "canvas"
            THEN Returns(CheckTuple(url, 0, "Error: Exception", FALSE, <<>>))
            ELSE Raises

-----------------------------------------------------------------------------
(* _extract_links_from_html *)

S_NoText == <<"[","I","m","a","g","e","/","N","o"," ","T","e","x","t","]">>
S_ImagePrefix == <<"I","m","a","g","e",":"," ">>
S_Iframe == <<"I","f","r","a","m","e"," ","E","m","b","e","d">>
S_ModuleText ==
    <<"M","o","d","u","l","e"," ","E","x","t","e","r","n","a","l"," ",
      "U","R","L">>

Link(url, text, source_url, location_name, type) ==
    [url |-> url, text |-> text, source_url |-> source_url,
     location_name |-> location_name, type |-> type]

\* the link dictionary of one tag, by the loop that handles its name
TagLink(tag, source_url, location_name) ==
    LET full_url == urljoin(CANVAS_API_URL, tag.ref.val)
    IN  CASE tag.name = "a" ->
                LET text == prefix_of(tag.text, 50)
                IN  Link(full_url, IF text # <<>> THEN text ELSE S_NoText,
                         source_url, location_name, "Link")
          [] tag.name = "img" ->
                Link(full_url, S_ImagePrefix \o tag.text,
                     source_url, location_name, "Image")
          [] tag.name = "iframe" ->
                Link(full_url, S_Iframe, source_url, location_name, "Iframe")

\* one "for ... in soup.find_all(name)" loop
RECURSIVE FoundLinks(_, _, _, _)
FoundLinks(tags, name, source_url, location_name) ==
    IF tags = <<>> THEN <<>>
    ELSE LET tag == Head(tags)
             rest == FoundLinks(Tail(tags), name, source_url, location_name)
         IN  IF tag.name = name /\ Truthy(_is_valid_url(tag.ref))
             THEN <<TagLink(tag, source_url, location_name)>> \o rest
             ELSE rest

_extract_links_from_html(html, source_url, location_name) ==
    IF html = <<>> THEN <<>>
    ELSE FoundLinks(html, "a", source_url, location_name)
         \o FoundLinks(html, "img", source_url, location_name)
         \o FoundLinks(html, "iframe", source_url, location_name)


-----------------------------------------------------------------------------
(* The report loop of run_link_checker *)

NoIssue == "None"

\* a faulty chain: the redirect test comes first
CanvasIssueTypeRedirectFirst(link, res) ==
    IF res.redirect THEN "Redirect"
    ELSE IF res.status >= 500 THEN "Server Error (5xx)"
    ELSE IF res.is_canvas /\ res.status \in {401, 403}
         THEN LET link_course_id == _extract_course_id(link.url)
              IN  IF Truthy(link_course_id) /\ link_course_id.val # course_id
                  THEN "Inaccessible Canvas Course (Other Course)"
                  ELSE "Access Denied (Locked Content)"
    ELSE IF res.status >= 400 THEN "Broken Link (4xx)"
    ELSE IF res.status = 0 THEN "Connection Failed"
    ELSE NoIssue

\* a faulty chain: the 4xx test comes before the 401/403 test
CanvasIssueType4xxFirst(link, res) ==
    IF res.status >= 500 THEN "Server Error (5xx)"
    ELSE IF res.status >= 400 THEN "Broken Link (4xx)"
    ELSE IF res.is_canvas /\ res.status \in {401, 403}
         THEN LET link_course_id == _extract_course_id(link.url)
              IN  IF Truthy(link_course_id) /\ link_course_id.val # course_id
                  THEN "Inaccessible Canvas Course (Other Course)"
                  ELSE "Access Denied (Locked Content)"
    ELSE IF res.status = 0 THEN "Connection Failed"
    ELSE IF res.redirect THEN "Redirect"
    ELSE NoIssue

\* canvas_link_checker.py: the if/elif chain that sets issue_type
canvas_issue_type(link, res) ==
    IF res.status >= 500 THEN "Server Error (5xx)"
    ELSE IF res.is_canvas /\ res.status \in {401, 403}
         THEN LET link_course_id == _extract_course_id(link.url)
              IN  IF Truthy(link_course_id) /\ link_course_id.val # course_id
                  THEN "Inaccessible Canvas Course (Other Course)"
                  ELSE "Access Denied (Locked Content)"
    ELSE IF res.status >= 400 THEN "Broken Link (4xx)"
    ELSE IF res.status = 0 THEN "Connection Failed"
    ELSE IF res.redirect THEN "Redirect"
    ELSE NoIssue

\* a faulty filter: status 0 does not count as broken
LinkcheckerIssueTypeNoZero(link, res) ==
    LET is_broken == res.status >= 400
    IN  IF is_broken \/ res.redirect
        THEN (IF is_broken THEN "Broken Link" ELSE "Redirect")
        ELSE NoIssue

\* linkchecker.py: is_broken, is_redirect and the "Issue Type" expression
linkchecker_issue_type(link, res) ==
    LET is_broken == res.status >= 400 \/ res.status = 0
    IN  IF is_broken \/ res.redirect
        THEN (IF is_broken THEN "Broken Link" ELSE "Redirect")
        ELSE NoIssue

issue_type(link, res) ==
    IF variant = "canvas" THEN canvas_issue_type(link, res)
    ELSE linkchecker_issue_type(link, res)

\* a faulty cell: the final url whether or not a redirect occurred
FinalUrlCellAlways(res) == res.final_url

\* the "Final URL" cell of a row
final_url_cell(res) == IF res.redirect THEN res.final_url ELSE <<>>

\* a faulty row: one report per url, every row of a url carrying the
\* location, text and edit link of the first link with that url
RowOfFirstOccurrence(link, res, type) ==
    LET first == all_links[SetMin({k \in 1..Len(all_links) :
                                      all_links[k].url = link.url})]
    IN  [Issue_Type |-> type,
         Location |-> first.location_name,
         Status_Code |-> res.status,
         Status_Msg |-> res.reason,
         Link_Text |-> first.text,
         Original_URL |-> link.url,
         Final_URL |-> IF res.redirect THEN res.final_url ELSE <<>>,
         Canvas_Edit_Link |-> first.source_url]

\* the row dictionary; the field names are those of canvas_link_checker.py
\* (linkchecker.py names the same cells "Link Text/Alt", "Status",
\* "Final URL (if redirect)" and "Canvas Link")
Row(link, res, type) ==
    [Issue_Type |-> type,
     Location |-> link.location_name,
     Status_Code |-> res.status,
     Status_Msg |-> res.reason,
     Link_Text |-> link.text,
     Original_URL |-> link.url,
     Final_URL |-> final_url_cell(res),
     Canvas_Edit_Link |-> link.source_url]

\* the result dictionary stored for a returned tuple
ResultDict(t) ==
    IF variant = "canvas"
    THEN [status |-> t.status, reason |-> t.reason, redirect |-> t.redirect,
          final_url |-> t.final_url, is_canvas |-> t.is_canvas]
    ELSE [status |-> t.status, reason |-> t.reason, redirect |-> t.redirect,
          final_url |-> t.final_url]

\* df.sort_values(by=["Issue Type", "Location"]): the rank of a label in
\* the order of its strings
LabelRank(s) ==
    CASE s = "Access Denied (Locked Content)" -> 1
      [] s = "Broken Link" -> 2
      [] s = "Broken Link (4xx)" -> 3
      [] s = "Connection Failed" -> 4
      [] s = "Inaccessible Canvas Course (Other Course)" -> 5
      [] s = "Redirect" -> 6
      [] s = "Server Error (5xx)" -> 7
      [] s = "Module: M / Item: I" -> 1
      [] s = "Page: A" -> 2

RowBefore(a, b) ==
    \/ LabelRank(a.Issue_Type) < LabelRank(b.Issue_Type)
    \/ /\ a.Issue_Type = b.Issue_Type
       /\ LabelRank(a.Location) < LabelRank(b.Location)

RECURSIVE sort_values(_)
sort_values(rows) ==
    IF rows = <<>> THEN <<>>
    ELSE LET first == CHOOSE i \in 1..Len(rows) :
                          /\ \A j \in 1..Len(rows) : ~RowBefore(rows[j], rows[i])
                          /\ \A j \in 1..(i - 1) : RowBefore(rows[i], rows[j])
                                                   \/ RowBefore(rows[j], rows[i])
             rest == [k \in 1..(Len(rows) - 1) |->
                         IF k < first THEN rows[k] ELSE rows[k + 1]]
         IN  <<rows[first]>> \o sort_values(rest)

-----------------------------------------------------------------------------
(* The thread pool *)

max_workers == IF variant = "canvas" THEN 5 ELSE 15

NoResult == [raised |-> FALSE, value |-> [url |-> <<>>]]

Future(url) == [url |-> url, state |-> "PENDING", result |-> NoResult]

Running == {i \in 1..Len(futures) : futures[i].state = "RUNNING"}

\* list(set(...)): the distinct urls in any order
Orders(S) ==
    {q \in [1..Cardinality(S) -> S] :
        \A i, j \in 1..Cardinality(S) : q[i] = q[j] => i = j}

\* the values unique_urls can take
unique_urls == Orders({all_links[i].url : i \in 1..Len(all_links)})

-----------------------------------------------------------------------------
(* run_link_checker, step by step *)

Init ==
    /\ variant \in Variants
    /\ gc = "unset"
    /\ pc = "auth"
    /\ all_links = <<>>
    /\ futures = <<>>
    /\ calls = <<>>
    /\ ended = <<>>
    /\ sent = {}
    /\ scraper = {}
    /\ url_results = <<>>
    /\ idx = 0
    /\ report_rows = <<>>
    /\ exported = <<>>
    /\ outcome = "running"
    /\ ref = PyNone
    /\ ret = PyNone

\* 1. Authentication: canvas_link_checker.py catches a failure and goes on
\* with gc = None, linkchecker.py lets it escape
Authenticate ==
    /\ pc = "auth"
    /\ \E ok \in BOOLEAN :
          IF ok THEN gc' = "client" /\ pc' = "get_course" /\ outcome' = outcome
          ELSE IF variant = "canvas"
               THEN gc' = "None" /\ pc' = "get_course" /\ outcome' = outcome
               ELSE gc' = gc /\ pc' = "done" /\ outcome' = "raised"
    /\ UNCHANGED <<variant, scraper, all_links, futures, calls, ended, sent,
                   url_results, idx, report_rows, exported, ref, ret>>

\* canvas.get_course: on an exception the function prints and returns
GetCourse ==
    /\ pc = "get_course"
    /\ \E ok \in BOOLEAN :
          IF ok THEN pc' = "pages" /\ outcome' = outcome
          ELSE pc' = "done" /\ outcome' = "course_error"
    /\ UNCHANGED <<variant, scraper, gc, all_links, futures, calls, ended, sent,
                   url_results, idx, report_rows, exported, ref, ret>>

\* 2. Scanning: one page
ScanPage ==
    /\ pc = "pages"
    /\ \E p \in Pages, body \in Bodies :
          LET found == _extract_links_from_html(
                           body, p.html_url, "Page: " \o p.title)
          IN  /\ found # <<>>
              /\ Len(all_links) + Len(found) <= MaxLinks
              /\ all_links' = all_links \o found
    /\ UNCHANGED <<variant, scraper, gc, pc, futures, calls, ended, sent,
                   url_results, idx, report_rows, exported, outcome, ref, ret>>

\* the loops over the pages, assignments, discussions, the syllabus and
\* announcements end (each of them extends all_links by the statement of
\* ScanPage)
EndPages ==
    /\ pc = "pages"
    /\ pc' = "modules"
    /\ UNCHANGED <<variant, scraper, gc, all_links, futures, calls, ended, sent,
                   url_results, idx, report_rows, exported, outcome, ref, ret>>

\* one module item: an ExternalUrl item is appended as it is
ScanModuleItem ==
    /\ pc = "modules"
    /\ Len(all_links) < MaxLinks
    /\ \E item \in ModuleItems :
          /\ item.type = "ExternalUrl"
          /\ all_links' = Append(all_links,
                Link(item.external_url, S_ModuleText,
                     "https://lms.ex/courses/42/modules",
                     "Module: M / Item: " \o item.title, "Module Item"))
    /\ UNCHANGED <<variant, scraper, gc, pc, futures, calls, ended, sent,
                   url_results, idx, report_rows, exported, outcome, ref, ret>>

\* 3. and 4.: unique_urls, the tasks and executor.map, which submits one
\* future per task
Dispatch ==
    /\ pc = "modules"
    /\ \E order \in unique_urls :
          /\ futures' = [i \in 1..Len(order) |-> Future(order[i])]
          /\ calls' = [u \in {order[i] : i \in 1..Len(order)} |-> 0]
          /\ ended' = [u \in {order[i] : i \in 1..Len(order)} |-> 0]
    /\ pc' = "map"
    /\ UNCHANGED <<variant, scraper, gc, all_links, sent, url_results,
                   idx, report_rows, exported, outcome, ref, ret>>

\* a worker takes the next work item off the queue and calls
\* _check_link_status, which builds the headers and sends the GET
Start(i) ==
    /\ pc = "map"
    /\ futures[i].state = "PENDING"
    /\ \A j \in 1..(i - 1) : futures[j].state # "PENDING"
    /\ Cardinality(Running) < max_workers
    /\ futures' = [futures EXCEPT ![i].state = "RUNNING"]
    /\ calls' = [calls EXCEPT ![futures[i].url] = @ + 1]
    /\ sent' = sent \cup
                  {[url |-> futures[i].url,
                    headers |-> request_headers(futures[i].url,
                                                CANVAS_API_KEY),
                    cookies |-> request_cookies(futures[i].url)]}
    /\ UNCHANGED <<variant, scraper, gc, pc, all_links, ended, url_results,
                   idx, report_rows, exported, outcome, ref, ret>>

\* the GET ends and _check_link_status returns or raises; a response may
\* set a cookie, which scraper.get stores in the session's jar
Finish(i) ==
    /\ pc \in {"map", "shutdown"}
    /\ futures[i].state = "RUNNING"
    /\ \E http \in HttpOutcomes(futures[i].url) :
          /\ futures' = [futures EXCEPT
                            ![i].state = "FINISHED",
                            ![i].result = _check_link_status(
                                             futures[i].url, CANVAS_API_KEY,
                                             http)]
          /\ \E set_cookie \in SetCookieChoices(http) :
                scraper' = IF set_cookie
                           THEN scraper \cup {_get_domain(futures[i].url)}
                           ELSE scraper
    /\ ended' = [ended EXCEPT ![futures[i].url] = @ + 1]
    /\ UNCHANGED <<variant, gc, pc, all_links, calls, sent,
                   url_results, idx, report_rows, exported, outcome, ref, ret>>

\* a faulty gathering: the results are taken once the first call is over
GatheredFirst ==
    /\ Len(futures) > 0 => futures[1].state = "FINISHED"
    /\ \A i \in 1..Len(futures) :
          futures[i].state = "FINISHED" => ~futures[i].result.raised

\* results = list(executor.map(...)) returns: every call has returned
Gathered ==
    \A i \in 1..Len(futures) :
       futures[i].state = "FINISHED" /\ ~futures[i].result.raised

\* list(executor.map(...)) has every result: the loop fills url_results
\* and the with block ends; tasks and results are not read again
MapReturns ==
    /\ pc = "map"
    /\ Gathered
    /\ LET results == {i \in 1..Len(futures) : futures[i].state = "FINISHED"}
       IN  url_results' =
              [u \in {futures[i].result.value.url : i \in results} |->
                  LET last == SetMax({i \in results :
                                         futures[i].result.value.url = u})
                  IN  ResultDict(futures[last].result.value)]
    /\ futures' = <<>>
    /\ pc' = "report"
    /\ idx' = 1
    /\ UNCHANGED <<variant, scraper, gc, all_links, calls, ended, sent,
                   report_rows, exported, outcome, ref, ret>>

\* the iteration over executor.map reaches a future whose call raised: the
\* futures not yet started are cancelled and the exception leaves the loop
MapRaises ==
    /\ pc = "map"
    /\ \E i \in 1..Len(futures) :
          /\ futures[i].state = "FINISHED" /\ futures[i].result.raised
          /\ \A j \in 1..(i - 1) :
                futures[j].state = "FINISHED" /\ ~futures[j].result.raised
    /\ futures' = [i \in 1..Len(futures) |->
                      IF futures[i].state = "PENDING"
                      THEN [futures[i] EXCEPT !.state = "CANCELLED"]
                      ELSE futures[i]]
    /\ pc' = "shutdown"
    /\ UNCHANGED <<variant, scraper, gc, all_links, calls, ended, sent,
                   url_results, idx, report_rows, exported, outcome, ref, ret>>

\* the with block waits for the running calls, then the exception leaves
\* run_link_checker
Shutdown ==
    /\ pc = "shutdown"
    /\ Running = {}
    /\ pc' = "done"
    /\ outcome' = "raised"
    /\ UNCHANGED <<variant, scraper, gc, all_links, futures, calls, ended, sent,
                   url_results, idx, report_rows, exported, ref, ret>>

\* 5. one iteration of "for link in all_links"
ReportLink ==
    /\ pc = "report"
    /\ idx <= Len(all_links)
    /\ LET link == all_links[idx]
       IN  IF link.url \notin DOMAIN url_results
           THEN report_rows' = report_rows
           ELSE LET res == url_results[link.url]
                    type == issue_type(link, res)
                IN  report_rows' =
                       IF type # NoIssue
                       THEN Append(report_rows, Row(link, res, type))
                       ELSE report_rows
    /\ idx' = idx + 1
    /\ UNCHANGED <<variant, scraper, gc, pc, all_links, futures, calls, ended, sent,
                   url_results, exported, outcome, ref, ret>>

\* 6. Export: nothing when there is no row; else the sorted rows go to the
\* CSV file when gc is None, to the sheet otherwise, and to the CSV file
\* when a sheet operation raises
Export ==
    /\ pc = "report"
    /\ idx > Len(all_links)
    /\ pc' = "done"
    /\ IF report_rows = <<>>
       THEN exported' = exported /\ outcome' = "no_issues"
       ELSE /\ exported' = sort_values(report_rows)
            /\ IF gc = "None" THEN outcome' = "csv"
               ELSE \E sheet_ok \in BOOLEAN :
                       outcome' = IF sheet_ok THEN "sheet" ELSE "csv_fallback"
    /\ UNCHANGED <<variant, scraper, gc, all_links, futures, calls, ended, sent,
                   url_results, idx, report_rows, ref, ret>>

Next ==
    \/ Authenticate
    \/ GetCourse
    \/ ScanPage
    \/ EndPages
    \/ ScanModuleItem
    \/ Dispatch
    \/ \E i \in 1..Len(futures) : Start(i)
    \/ \E i \in 1..Len(futures) : Finish(i)
    \/ MapReturns
    \/ MapRaises
    \/ Shutdown
    \/ ReportLink
    \/ Export

Spec == Init /\ [][Next]_vars

-----------------------------------------------------------------------------
(* _is_valid_url on its own: SpecFilter *)

Heads ==
    {<<>>, <<" ">>, <<"\t">>, S_hash, S_mailto, S_javascript, S_tel,
     <<"m","a","i","l","t","o">>, <<"M","a","i","l","t","o",":">>,
     <<"t","e","l">>, <<"j","a","v","a","s","c","r","i","p","t">>,
     S_https, <<"/">>}
TailChars == {" ", "a", "#", ":"}
Tails == UNION {[1..n -> TailChars] : n \in 0..MaxTail}
RefInputs == {PyNone} \cup {PyStr(h \o t) : h \in Heads, t \in Tails}

InitFilter ==
    /\ variant \in Variants
    /\ gc = "unset"
    /\ pc = "filter"
    /\ all_links = <<>>
    /\ futures = <<>>
    /\ calls = <<>>
    /\ ended = <<>>
    /\ sent = {}
    /\ scraper = {}
    /\ url_results = <<>>
    /\ idx = 0
    /\ report_rows = <<>>
    /\ exported = <<>>
    /\ outcome = "running"
    /\ ref \in RefInputs
    /\ ret = PyNone

ApplyFilter ==
    /\ pc = "filter"
    /\ ret' = _is_valid_url(ref)
    /\ pc' = "filtered"
    /\ UNCHANGED <<variant, scraper, gc, all_links, futures, calls, ended, sent,
                   url_results, idx, report_rows, exported, outcome, ref>>

NextFilter == ApplyFilter

SpecFilter == InitFilter /\ [][NextFilter]_vars

-----------------------------------------------------------------------------
(* Properties *)

\* the links the report loop has handled
Handled == 1..(idx - 1)

\* the result the report loop reads for a link
ResultOf(link) == url_results[link.url]

\* the rows that carry a link's url, location, text and edit link
RowsOf(link) ==
    {j \in 1..Len(report_rows) :
        /\ report_rows[j].Original_URL = link.url
        /\ report_rows[j].Location = link.location_name
        /\ report_rows[j].Link_Text = link.text
        /\ report_rows[j].Canvas_Edit_Link = link.source_url}

TypesOf(link) == {report_rows[j].Issue_Type : j \in RowsOf(link)}

\* C1: in canvas_link_checker.py the rules apply in the order 5xx, internal
\* 401/403, 4xx, status 0, redirect, and the first match decides: a handled
\* link whose result has status >= 500 has a row of type "Server Error (5xx)"
\* whatever its redirect and internal flags, and a link whose result has
\* status >= 400 or status 0 never has a row of type "Redirect"
C1_Precedence ==
    variant = "canvas" =>
       \A k \in Handled :
          LET link == all_links[k]
              res == ResultOf(link)
          IN  /\ res.status >= 500 =>
                    TypesOf(link) = {"Server Error (5xx)"}
              /\ (res.status >= 400 \/ res.status = 0) =>
                    "Redirect" \notin TypesOf(link)
              /\ (res.status < 500 /\ res.is_canvas
                     /\ res.status \in {401, 403}) =>
                    /\ TypesOf(link) # {}
                    /\ TypesOf(link) \subseteq
                          {"Inaccessible Canvas Course (Other Course)",
                           "Access Denied (Locked Content)"}
              /\ (res.status >= 400 /\ res.status < 500
                     /\ ~(res.is_canvas /\ res.status \in {401, 403})) =>
                    TypesOf(link) = {"Broken Link (4xx)"}
              /\ res.status = 0 => TypesOf(link) = {"Connection Failed"}

\* a link with status 503, redirected and internal, has been handled
C1_Witness ==
    /\ variant = "canvas"
    /\ \E k \in Handled :
          LET res == ResultOf(all_links[k])
          IN  /\ res.status = 503 /\ res.redirect /\ res.is_canvas
              /\ RowsOf(all_links[k]) # {}

\* C2: for N links with M distinct urls _check_link_status is called
\* exactly M times, once per distinct url, and the rows of links with the
\* same url carry the same result
C2_OncePerUrl ==
    pc = "done" =>
       /\ \A k \in 1..Len(all_links) : calls[all_links[k].url] = 1
       /\ \A i, j \in 1..Len(report_rows) :
             report_rows[i].Original_URL = report_rows[j].Original_URL =>
                /\ report_rows[i].Status_Code = report_rows[j].Status_Code
                /\ report_rows[i].Status_Msg = report_rows[j].Status_Msg
                /\ report_rows[i].Final_URL = report_rows[j].Final_URL

\* C3: no exception escapes _check_link_status or the thread-pool step:
\* every call that is over has returned a result, no task is dropped and the
\* coordinator never leaves the step by an exception
C3_NoEscape ==
    /\ \A i \in 1..Len(futures) :
          /\ futures[i].state = "FINISHED" => ~futures[i].result.raised
          /\ futures[i].state # "CANCELLED"
    /\ pc # "shutdown"

\* C4: the report loop starts only after every dispatched call is over, and
\* then url_results holds exactly one entry per distinct url
C4_Barrier ==
    (pc = "report" \/ idx >= 1 \/ report_rows # <<>>) =>
       /\ \A k \in 1..Len(all_links) :
             /\ calls[all_links[k].url] = 1
             /\ ended[all_links[k].url] = 1
       /\ Running = {}
       /\ DOMAIN url_results = {all_links[k].url : k \in 1..Len(all_links)}

\* the report loop is about to handle the first of two links with
\* different urls
C4_Witness ==
    /\ pc = "report"
    /\ idx = 1
    /\ Cardinality(DOMAIN url_results) = 2

\* C5: a GET carries the Authorization header exactly when the url's domain
\* equals the domain of CANVAS_API_URL
C5_CredentialOnlyToBaseDomain ==
    \A r \in sent :
       (\E h \in r.headers : h[1] = "Authorization")
          <=> (_get_domain(r.url) = _get_domain(CANVAS_API_URL))

\* C6 as claimed: the Final URL cell of a row is filled only when the row's
\* issue type is "Redirect"
C6_FinalUrlOnlyRedirectType ==
    \A j \in 1..Len(report_rows) :
       report_rows[j].Final_URL # <<>> =>
          report_rows[j].Issue_Type = "Redirect"

\* C6 as amended: the Final URL cell of a row is filled only when the
\* result of the row's url has the redirect flag set, whatever the issue
\* type; it is empty when the flag is not set
C6_FinalUrlOnlyIfRedirected ==
    \A j \in 1..Len(report_rows) :
       LET res == url_results[report_rows[j].Original_URL]
       IN  /\ report_rows[j].Final_URL # <<>> => res.redirect
           /\ ~res.redirect => report_rows[j].Final_URL = <<>>

\* a row of another type than "Redirect" has its Final URL cell filled
C6_Witness ==
    \E j \in 1..Len(report_rows) :
       /\ report_rows[j].Final_URL # <<>>
       /\ report_rows[j].Issue_Type # "Redirect"

AccessDeniedTable(other_course) ==
    variant = "canvas" =>
       \A k \in Handled :
          LET link == all_links[k]
              res == ResultOf(link)
              link_course_id == _extract_course_id(link.url)
          IN  res.status \in {401, 403} =>
                 TypesOf(link) =
                    IF res.is_canvas
                    THEN IF link_course_id.type = "str"
                            /\ link_course_id.val # course_id
                         THEN {other_course}
                         ELSE {"Access Denied (Locked Content)"}
                    ELSE {"Broken Link (4xx)"}

Rejected(s) ==
    \/ \A i \in 1..Len(s) : s[i] \in {" ", "\t", "\n"}
    \/ \E p \in {S_mailto, S_javascript, S_hash, S_tel} :
          /\ Len(p) <= Len(s)
          /\ \A i \in 1..Len(p) : s[i] = p[i]

\* C9: _is_valid_url returns a false value for a rejected reference and a
\* true value for every other string
C9_Filter ==
    (pc = "filtered" /\ ref.type = "str") =>
       (Truthy(ret) <=> ~Rejected(ref.val))

\* a tel: reference has been handed to the filter and refused
C9_Witness ==
    /\ pc = "filtered"
    /\ ref = PyStr(S_tel \o <<"a">>)
    /\ ~Truthy(ret)

\* the references a link of the model can come from
KnownRefs == {t.ref : t \in Tags}

\* C10: every link of all_links has a non-empty url whose reference passed
\* _is_valid_url: the href or src of its tag, or the external_url of its
\* module item
C10_LinksPassedFilter ==
    \A k \in 1..Len(all_links) :
       LET link == all_links[k]
       IN  /\ link.url # <<>>
           /\ IF link.type = "Module Item"
              THEN Truthy(_is_valid_url(PyStr(link.url)))
              ELSE \E r \in KnownRefs :
                      /\ Truthy(_is_valid_url(r))
                      /\ urljoin(CANVAS_API_URL, r.val) = link.url

\* a result the report loop makes a row for
IsIssue(res) == res.status >= 400 \/ res.status = 0 \/ res.redirect

\* the handled links with the url, location and edit link of a link
OccurrencesOf(link) ==
    {k \in Handled :
        /\ all_links[k].url = link.url
        /\ all_links[k].location_name = link.location_name
        /\ all_links[k].source_url = link.source_url}

\* the rows with the url, location and edit link of a link
RecordsOf(link) ==
    {j \in 1..Len(report_rows) :
        /\ report_rows[j].Original_URL = link.url
        /\ report_rows[j].Location = link.location_name
        /\ report_rows[j].Canvas_Edit_Link = link.source_url}

\* C11: reporting is per occurrence: there are never more rows than handled
\* links, every row is the row of a handled link, a url whose result is an
\* issue has as many rows at a location as handled links carry it there
\* (K links in K locations give K rows, each with its own location and edit
\* link), a url whose result is no issue has none, and every row of a url
\* has the status code and status text of that url's one result
C11_PerOccurrence ==
    /\ Len(report_rows) <= Cardinality(Handled)
    /\ \A j \in 1..Len(report_rows) :
          \E k \in Handled : j \in RecordsOf(all_links[k])
    /\ \A k \in Handled :
          LET link == all_links[k]
              res == ResultOf(link)
          IN  /\ Cardinality(RecordsOf(link)) =
                    IF IsIssue(res) THEN Cardinality(OccurrencesOf(link))
                    ELSE 0
              /\ \A j \in 1..Len(report_rows) :
                    report_rows[j].Original_URL = link.url =>
                       /\ report_rows[j].Status_Code = res.status
                       /\ report_rows[j].Status_Msg = res.reason

\* two links in different locations carry one url, both have been handled
\* and there are two rows of that url, one per location
C11_Witness ==
    /\ pc = "report"
    /\ idx > Len(all_links)
    /\ \E k1, k2 \in Handled :
          /\ all_links[k1].url = all_links[k2].url
          /\ all_links[k1].location_name # all_links[k2].location_name
          /\ Cardinality(RecordsOf(all_links[k1])) = 1
          /\ Cardinality(RecordsOf(all_links[k2])) = 1
          /\ Len(report_rows) = 2

\* run_link_checker has ended by an exception of the Google authentication:
\* gc was never bound
AuthEscaped == pc = "done" /\ outcome = "raised" /\ gc = "unset"

\* the number of times a row occurs in a sequence of rows
Count(rows, r) == Cardinality({j \in 1..Len(rows) : rows[j] = r})

\* C12: a failure of the export target never ends run_link_checker by an
\* exception, and a run that has classified its links ends in one of three
\* ways: without rows it reports success and exports nothing; with rows and
\* no spreadsheet client, or a failed spreadsheet operation, the rows go to
\* the CSV file; otherwise they go to the sheet; what is exported is every
\* row, once
C12_ExportOutcomes ==
    /\ ~AuthEscaped
    /\ (pc = "done" /\ outcome \notin {"raised", "course_error"}) =>
          /\ outcome \in {"no_issues", "csv", "csv_fallback", "sheet"}
          /\ outcome = "no_issues" <=> report_rows = <<>>
          /\ outcome = "no_issues" => exported = <<>>
          /\ outcome # "no_issues" =>
                /\ Len(exported) = Len(report_rows)
                /\ \A j \in 1..Len(report_rows) :
                      Count(exported, report_rows[j]) =
                         Count(report_rows, report_rows[j])
          /\ gc # "client" => outcome \in {"no_issues", "csv"}
          /\ outcome \in {"sheet", "csv_fallback"} => gc = "client"

\* C13: while the checks run, at most max_workers calls are in flight
\* (5 in canvas_link_checker.py, 15 in linkchecker.py), no url is in flight
\* twice, url_results is still empty (the coordinating thread fills it after
\* the results are gathered), and the calls share no mutable state: what a
\* call sends is made of its own inputs only, so no GET carries a cookie
\* that another call has left behind
C13_BoundedIndependentWorkers ==
    /\ max_workers = (IF variant = "canvas" THEN 5 ELSE 15)
    /\ Cardinality(Running) <= max_workers
    /\ \A i, j \in Running : futures[i].url = futures[j].url => i = j
    /\ pc \in {"map", "shutdown"} => url_results = <<>>
    /\ \A r \in sent : r.cookies = {}

=============================================================================
